---------------------------- MODULE Spec2Model ----------------------------
(***************************************************************************)
(* Document job orchestration and object-store / database consistency of   *)
(* llm-ai-service.                                                         *)
(*                                                                         *)
(* DelSpec : one document, its storage key in the versioned object store,  *)
(*           and the soft-delete, restore and upload queue tasks acting on *)
(*           it, with object-store and database failures and retries.      *)
(* StoreSpec : the object-store adapter's operations applied in any order  *)
(*           to the versions of one key.                                   *)
(* JobSpec : the DocumentJob table and deliveries of process_document_task *)
(*           running the pipeline's stages in concurrent transactions.     *)
(* LookupSpec : _execute_job's job lookup applied to any table of          *)
(*           DocumentJob rows.                                             *)
(* StoredSpec : JobSpec's deliveries for a document that already has a     *)
(*           stored DocumentJob row, of any status.                        *)
(* ResumedSpec : JobSpec's deliveries for a document whose earlier         *)
(*           delivery left its last stage's job waiting for a retry.       *)
(* CrashSpec : deliveries requested through the vectorize endpoint whose   *)
(*           worker process may die, under fair execution of the tasks.    *)
(* SweepSpec : the retention sweep applied, day after day, to tables of    *)
(*           Document rows, larger than its batch limit included.          *)
(* PurgeSpec : permanent deletion requested for the documents of a table.  *)
(* RetentionSpec : the retention sweep and the permanent deletions it and  *)
(*           the API enqueue, under fair execution of the deletion tasks.  *)
(***************************************************************************)
EXTENDS Naturals, Integers, Sequences, FiniteSets, TLC

VARIABLES
    versions,      \* object store: the versions listed for the document's key
    clock,         \* object store: next version id / last_modified stamp
    doc,           \* the committed Document row
    sd,            \* soft_delete_document_task (current delivery)
    rs,            \* restore_document_task (current delivery)
    up,            \* upload_document_task (current delivery)
    upJobs,        \* committed UPLOAD_DOCUMENT DocumentJob rows of the document
    criticalLogged,\* a CRITICAL DATA INCONSISTENCY event was logged
    lastCall,      \* the most recent object-store adapter call (history)
    rt,            \* history of the last successful soft-delete (round trip)
    faults,        \* failures injected so far
    launches,      \* tasks enqueued so far
    jobs,          \* committed DocumentJob rows for one (document, job type)
    tx,            \* per worker: its open transaction's uncommitted row images
    wk,            \* per worker: position in _execute_job
    nextJob,       \* next DocumentJob id
    documents,     \* Document rows of the table the retention sweep scans
    today,         \* the current time, in days
    expired,       \* the last retention sweep: what it found and how it ended
    objects,       \* object store: per document, the versions under its key
    pd             \* per document: its permanent_delete_document_task

delVars == <<versions, clock, doc, sd, rs, up, upJobs, criticalLogged,
             lastCall, rt, faults, launches>>
jobVars == <<jobs, tx, wk, nextJob>>
retVars == <<documents, today, expired, objects, pd>>
vars == <<delVars, jobVars, retVars>>

-----------------------------------------------------------------------------
(* Bounds of the model *)

\* object-store writes (versions ever created) explored
MaxClock == 6
\* injected object-store / database failures explored
MaxFaults == 4
\* queue tasks enqueued
MaxLaunches == 2
\* object-store writes explored when the adapter is called directly
MaxStoreClock == 4

\* Document rows soft-deleted on the first day, in a table the sweep scans
MaxExpired == 101
\* Document rows soft-deleted on the second day, in such a table
MaxRecent == 1
\* Document rows not deleted, in such a table
MaxActive == 1
\* days on which the sweep runs
MaxDays == 2
\* Document rows of a table on which permanent deletion is requested
MaxDocs == 2

(* Program constants *)

\* @celery_app.task(max_retries=3) of the three tasks
max_retries == 3

\* settings.DOCUMENT_RETENTION_PERIOD_DAYS
DOCUMENT_RETENTION_PERIOD_DAYS == 30

\* get_expired_soft_deleted(db, cutoff_date, limit=100)
ExpiredBatchLimit == 100

NULL == 0

-----------------------------------------------------------------------------
(* Object store: list_objects(include_version=True) and remove_object *)

NoVersion == [vid |-> NULL, dm |-> FALSE, lm |-> 0]

Range(s) == {s[i] : i \in 1..Len(s)}

\* max(versions, key=_last_modified) if versions else None.  max() returns the
\* first maximal element of the listing, which lists the versions of a key
\* newest first: among equal timestamps, the version written last
MaxByLastModified(vset) ==
    IF vset = {} THEN NoVersion
    ELSE CHOOSE v \in vset :
           \A w \in vset : w.lm < v.lm \/ (w.lm = v.lm /\ w.vid <= v.vid)

LatestVersion(vs) == MaxByLastModified(Range(vs))

LatestDeleteMarkerVersion(vs) == MaxByLastModified({v \in Range(vs) : v.dm})

\* the version written last under the key: the one a versioning-enabled
\* bucket serves as the key's latest version
LastWritten(vs) == IF vs = <<>> THEN NoVersion ELSE vs[Len(vs)]

\* last_modified stamps a write at store time clk can get: the listing carries
\* timestamps of finite resolution, so a write either falls in a new tick or
\* shares the tick of the newest stored version
Stamps(vs, clk) == IF vs = <<>> THEN {clk} ELSE {clk, LatestVersion(vs).lm}

\* faulty variant: the bucket keeps no versions, the delete replaces them
AddDeleteMarkerMut(vs, clk, lm) == <<[vid |-> clk, dm |-> TRUE, lm |-> lm]>>

\* remove_object(bucket, key) on a versioning-enabled bucket: a delete marker
\* becomes the newest version; no stored version is erased
AddDeleteMarker(vs, clk, lm) == Append(vs, [vid |-> clk, dm |-> TRUE, lm |-> lm])

\* fput_object(bucket, key, ...): a new content version
AddContentVersion(vs, clk, lm) == Append(vs, [vid |-> clk, dm |-> FALSE, lm |-> lm])

\* remove_object(bucket, key, version_id=v): that version is erased
RemoveVersion(vs, v) == SelectSeq(vs, LAMBDA x : x.vid # v)

-----------------------------------------------------------------------------
(* Object store adapter: MinioClient *)

\* "is the latest delete marker the latest version": the exception is raised
\* only when both the timestamps and the version ids differ
IsLatestCheck(ldm, lv) == ~(ldm.lm # lv.lm /\ ldm.vid # lv.vid)

\* faulty variant: the supplied version_id is not compared
VersionMatchesMut(ldm, version_id) == TRUE

\* the supplied version_id must be the latest delete marker's
VersionMatches(ldm, version_id) == ldm.vid = version_id

SoftDeleteFaults == {"none", "remove", "NoSuchKey", "list"}

\* MinioClient.soft_delete_document(object_name).  fault: which client call
\* raises S3Error ("NoSuchKey": remove_object raises S3Error code NoSuchKey)
SoftDeleteDocument(vs, clk, lm, fault) ==
    IF fault = "remove"
    THEN [versions |-> vs, clock |-> clk, outcome |-> "S3Error", vid |-> NULL]
    ELSE IF fault = "NoSuchKey"
    THEN [versions |-> vs, clock |-> clk, outcome |-> "already_deleted", vid |-> NULL]
    ELSE LET vs1 == AddDeleteMarker(vs, clk, lm)
             lv  == LatestVersion(vs1)
             ldm == LatestDeleteMarkerVersion(vs1)
             res(o, v) == [versions |-> vs1, clock |-> clk + 1, outcome |-> o, vid |-> v]
         IN  IF fault = "list" THEN res("S3Error", NULL)
             ELSE IF ldm = NoVersion \/ lv = NoVersion THEN res("ValueError", NULL)
             ELSE IF ~IsLatestCheck(ldm, lv) THEN res("ValueError", NULL)
             ELSE res("soft_deleted", ldm.vid)

RestoreFaults == {"none", "list", "remove", "check"}

\* MinioClient.restore_document(object_name, version_id)
RestoreDocument(vs, version_id, fault) ==
    LET lv  == LatestVersion(vs)
        ldm == LatestDeleteMarkerVersion(vs)
        vs1 == RemoveVersion(vs, ldm.vid)
        cur == LatestVersion(vs1)
        res(w, o, v) == [versions |-> w, outcome |-> o, last_version |-> v]
    IN  IF fault = "list" THEN res(vs, "S3Error", NULL)
        ELSE IF ldm = NoVersion \/ lv = NoVersion THEN res(vs, "ValueError", NULL)
        ELSE IF ~IsLatestCheck(ldm, lv) THEN res(vs, "ValueError", NULL)
        ELSE IF ldm.vid = NULL THEN res(vs, "ValueError", NULL)
        ELSE IF ~VersionMatches(ldm, version_id) THEN res(vs, "ValueError", NULL)
        ELSE IF fault = "remove" THEN res(vs, "S3Error", NULL)
        ELSE IF fault = "check" THEN res(vs1, "S3Error", NULL)
        ELSE IF cur = NoVersion THEN res(vs1, "ValueError", NULL)
        ELSE IF cur.dm THEN res(vs1, "ValueError", NULL)
        ELSE res(vs1, "restored", cur.vid)

\* "put": the request fails on the network or with any other S3Error;
\* "AccessDenied": the store answers S3Error with code AccessDenied
UploadFaults == {"none", "put", "AccessDenied"}

\* MinioClient.upload_file(object_name, ...)
UploadFile(vs, clk, lm, fault) ==
    IF fault # "none"
    THEN [versions |-> vs, clock |-> clk, outcome |-> "S3Error", vid |-> NULL]
    ELSE [versions |-> AddContentVersion(vs, clk, lm), clock |-> clk + 1,
          outcome |-> "uploaded", vid |-> clk]

-----------------------------------------------------------------------------
(* Document row: DocumentCRUD *)

\* DocumentCRUD.get_by_id / get_by_checksum_and_user: soft-deleted rows are filtered
GetById(d) == ~d.is_deleted /\ d.deleted_at = NULL

\* DocumentCRUD.get_soft_deleted_by_id
GetSoftDeletedById(d) == d.is_deleted /\ d.deleted_at # NULL

\* DocumentCRUD.soft_delete(doc, deleted_at, updated_at, version_id)
SoftDeleteRow(d, deleted_at, version_id) ==
    [d EXCEPT !.storage_status = "deleted", !.is_deleted = TRUE,
              !.deleted_at = deleted_at, !.version_id = version_id]

\* DocumentCRUD.restore(doc, deleted_at=None, updated_at, version_id)
RestoreRow(d, version_id) ==
    [d EXCEPT !.storage_status = "archived", !.is_deleted = FALSE,
              !.deleted_at = NULL, !.version_id = version_id]

-----------------------------------------------------------------------------
(* Queue: Task.retry of a task declared with max_retries=3 *)

InFlight(t) == t.pc \notin {"idle", "success", "failed"}

\* faulty variant: the retry is re-queued whatever the count
TaskRetryMut(t, exc) == [t EXCEPT !.pc = "queued", !.retries = @ + 1]

\* raise self.retry(exc=e): re-queued while request.retries < max_retries,
\* otherwise exc is raised and the task ends
TaskRetry(t, exc) ==
    IF t.retries < max_retries
    THEN [t EXCEPT !.pc = "queued", !.retries = @ + 1]
    ELSE [t EXCEPT !.pc = "failed", !.result = exc]

TaskFail(t, exc) == [t EXCEPT !.pc = "failed", !.result = exc]

-----------------------------------------------------------------------------
(* Initial state: an uploaded document whose key holds one content version *)

IdleTask == [pc |-> "idle", retries |-> 0, result |-> "", version_id |-> NULL,
             deleted_at |-> NULL, last_version |-> NULL, markerOk |-> 0,
             dbFails |-> 0, compCalls |-> 0, compFailed |-> FALSE,
             critical |-> FALSE, removedOk |-> FALSE, pre |-> <<>>,
             writes |-> 0, temp_file |-> FALSE]

NoCall == [op |-> "none", arg |-> NULL, fault |-> "none", outcome |-> "",
           pre |-> <<>>, post |-> <<>>]

Call(op, arg, fault, outcome, pre, post) ==
    [op |-> op, arg |-> arg, fault |-> fault, outcome |-> outcome,
     pre |-> pre, post |-> post]

InitDel ==
    /\ versions = <<[vid |-> 1, dm |-> FALSE, lm |-> 1]>>
    /\ clock = 2
    /\ \E st \in {"active", "archived"} :
         doc = [storage_status |-> st, is_deleted |-> FALSE,
                deleted_at |-> NULL, version_id |-> 1]
    /\ sd = IdleTask
    /\ rs = IdleTask
    /\ up = IdleTask
    /\ upJobs = <<>>
    /\ criticalLogged = FALSE
    /\ lastCall = NoCall
    /\ rt = [set |-> FALSE, wasActive |-> FALSE, pre |-> <<>>, post |-> <<>>,
             vid |-> NULL, docAfter |-> [storage_status |-> "", is_deleted |-> FALSE,
                                         deleted_at |-> NULL, version_id |-> NULL]]
    /\ faults = 0
    /\ launches = 0

\* injected anomalies are budgeted: a failing call, and a write sharing the
\* timestamp of the newest stored version
CanFault(f) == f = "none" \/ faults < MaxFaults
Count(f) == IF f = "none" THEN faults ELSE faults + 1
SameTick(lm) == lm # clock
CanTie(f, lm) == SameTick(lm) => (f = "none" /\ faults < MaxFaults)
CountTie(f, lm) == IF SameTick(lm) THEN faults + 1 ELSE Count(f)

-----------------------------------------------------------------------------
(* soft_delete_document_task *)

\* faulty variant: compensation on every database failure
ShouldCompensateMut(retries) == TRUE

\* DatabaseError handler: "if current_retry >= max_retries"
ShouldCompensate(retries) == retries >= max_retries

\* '"version_id" in locals() and "storage_key" in locals()'
SoftDeleteHasRollbackInfo(t) == t.version_id # NULL

\* faulty variant: CRITICAL logged whatever the compensation returned
CompensationLogsCriticalMut(outcome) == TRUE

\* "except Exception as rollback_exc: logger.critical(...)"
CompensationLogsCritical(outcome) == outcome # "restored"

EnqueueSoftDelete ==
    /\ ~InFlight(sd)
    /\ launches < MaxLaunches
    /\ sd' = [IdleTask EXCEPT !.pc = "queued"]
    /\ launches' = launches + 1
    /\ UNCHANGED <<versions, clock, doc, rs, up, upJobs, criticalLogged,
                   lastCall, rt, faults, jobVars, retVars>>

\* faulty variant: the database update is made before the object-store call
SdFetchMut ==
    /\ sd.pc = "queued"
    /\ sd' = IF ~GetById(doc) THEN TaskFail(sd, "NotFoundError")
             ELSE [sd EXCEPT !.pc = "db", !.version_id = NULL]
    /\ UNCHANGED <<versions, clock, doc, rs, up, upJobs, criticalLogged,
                   lastCall, rt, faults, launches, jobVars, retVars>>

\* get_by_id, NotFoundError, the "already soft deleted" return
SdFetch ==
    /\ sd.pc = "queued"
    /\ sd' = IF ~GetById(doc) THEN TaskFail(sd, "NotFoundError")
             ELSE IF doc.storage_status = "deleted"
                  THEN [sd EXCEPT !.pc = "success", !.result = "already soft deleted"]
             ELSE [sd EXCEPT !.pc = "store", !.version_id = NULL]
    /\ UNCHANGED <<versions, clock, doc, rs, up, upJobs, criticalLogged,
                   lastCall, rt, faults, launches, jobVars, retVars>>

\* minio_client.soft_delete_document(storage_key) and the handlers of its errors
SdStore(f, lm) ==
    /\ sd.pc = "store"
    /\ CanFault(f)
    /\ f \in {"remove", "NoSuchKey"} \/ clock < MaxClock
    /\ lm \in Stamps(versions, clock)
    /\ CanTie(f, lm)
    /\ LET r == SoftDeleteDocument(versions, clock, lm, f)
       IN  /\ versions' = r.versions
           /\ clock' = r.clock
           /\ lastCall' = Call("soft_delete", NULL, f, r.outcome, versions, r.versions)
           /\ sd' = CASE r.outcome = "soft_deleted" ->
                           [sd EXCEPT !.pc = "db", !.version_id = r.vid,
                                      !.deleted_at = clock, !.markerOk = @ + 1,
                                      !.pre = versions]
                      [] r.outcome = "S3Error" -> TaskRetry(sd, "ExternalServiceError")
                      [] r.outcome = "already_deleted" -> TaskFail(sd, "KeyError")
                      [] OTHER -> TaskFail(sd, "ValueError")
    /\ faults' = CountTie(f, lm)
    /\ UNCHANGED <<doc, rs, up, upJobs, criticalLogged, rt, launches, jobVars, retVars>>

\* document_crud.soft_delete(...) + commit, or DatabaseError and its handler
\* up to the compensation
SdDb(ok) ==
    /\ sd.pc = "db"
    /\ ok \/ faults < MaxFaults
    /\ IF ok
       THEN /\ doc' = SoftDeleteRow(doc, sd.deleted_at, sd.version_id)
            /\ sd' = [sd EXCEPT !.pc = "success", !.result = "Document deleted successfully"]
            /\ rt' = [set |-> TRUE, wasActive |-> doc.storage_status = "active",
                      pre |-> sd.pre, post |-> versions, vid |-> sd.version_id,
                      docAfter |-> doc']
            /\ faults' = faults
       ELSE /\ doc' = doc
            /\ sd' = IF ShouldCompensate(sd.retries)
                     THEN [sd EXCEPT !.pc = "compensate", !.dbFails = @ + 1]
                     ELSE TaskRetry([sd EXCEPT !.dbFails = @ + 1], "DatabaseError")
            /\ rt' = rt
            /\ faults' = faults + 1
    /\ UNCHANGED <<versions, clock, rs, up, upJobs, criticalLogged, lastCall,
                   launches, jobVars, retVars>>

\* the compensating minio_client.restore_document(storage_key, version_id),
\* the CRITICAL log when it raises, then "raise self.retry(exc=retry_exc)"
SdCompensate(f) ==
    /\ sd.pc = "compensate"
    /\ CanFault(f)
    /\ IF SoftDeleteHasRollbackInfo(sd)
       THEN LET r == RestoreDocument(versions, sd.version_id, f)
                crit == CompensationLogsCritical(r.outcome)
            IN  /\ versions' = r.versions
                /\ lastCall' = Call("restore", sd.version_id, f, r.outcome,
                                    versions, r.versions)
                /\ criticalLogged' = (criticalLogged \/ crit)
                /\ sd' = TaskRetry([sd EXCEPT !.compCalls = @ + 1,
                                              !.compFailed = (r.outcome # "restored"),
                                              !.critical = crit], "DatabaseError")
       ELSE /\ UNCHANGED <<versions, lastCall, criticalLogged>>
            /\ sd' = TaskRetry(sd, "DatabaseError")
    /\ faults' = Count(f)
    /\ UNCHANGED <<clock, doc, rs, up, upJobs, rt, launches, jobVars, retVars>>

-----------------------------------------------------------------------------
(* restore_document_task *)

\* '"storage_key" in locals()': restore_document_task never binds a local of
\* that name (it reads doc.storage_key), so the test is false on every path
RestoreHasRollbackInfo(t) == FALSE

\* task arguments explored: the version id on the row and the ids of the
\* versions now stored under the key
RestoreArgs == ({doc.version_id} \cup {v.vid : v \in Range(versions)}) \ {NULL}

EnqueueRestore(v) ==
    /\ ~InFlight(rs)
    /\ launches < MaxLaunches
    /\ v \in RestoreArgs
    /\ rs' = [IdleTask EXCEPT !.pc = "queued", !.version_id = v]
    /\ launches' = launches + 1
    /\ UNCHANGED <<versions, clock, doc, sd, up, upJobs, criticalLogged,
                   lastCall, rt, faults, jobVars, retVars>>

\* get_soft_deleted_by_id, NotFoundError, the "already active" return (which
\* reads restored_doc before it is bound)
RsFetch ==
    /\ rs.pc = "queued"
    /\ rs' = IF ~GetSoftDeletedById(doc) THEN TaskFail(rs, "NotFoundError")
             ELSE IF doc.storage_status = "active" THEN TaskFail(rs, "UnboundLocalError")
             ELSE [rs EXCEPT !.pc = "store", !.removedOk = FALSE]
    /\ UNCHANGED <<versions, clock, doc, sd, up, upJobs, criticalLogged,
                   lastCall, rt, faults, launches, jobVars, retVars>>

\* minio_client.restore_document(storage_key, version_id) and the handlers
RsStore(f) ==
    /\ rs.pc = "store"
    /\ CanFault(f)
    /\ LET r == RestoreDocument(versions, rs.version_id, f)
       IN  /\ versions' = r.versions
           /\ lastCall' = Call("restore", rs.version_id, f, r.outcome, versions, r.versions)
           /\ rs' = CASE r.outcome = "restored" ->
                           [rs EXCEPT !.pc = "db", !.last_version = r.last_version,
                                      !.removedOk = TRUE, !.pre = versions]
                      [] r.outcome = "S3Error" -> TaskRetry(rs, "ExternalServiceError")
                      [] OTHER -> TaskFail(rs, "ValueError")
    /\ faults' = Count(f)
    /\ UNCHANGED <<clock, doc, sd, up, upJobs, criticalLogged, rt, launches, jobVars, retVars>>

\* document_crud.restore(...) + commit, or DatabaseError and its handler: the
\* compensating soft_delete_document when the budget is exhausted and the
\* rollback information is present, the CRITICAL log when it raises, the retry
RsDb(ok, g) ==
    /\ rs.pc = "db"
    /\ ok \/ faults < MaxFaults
    /\ g \in SoftDeleteFaults
    /\ IF ok
       THEN /\ g = "none"
            /\ doc' = RestoreRow(doc, rs.last_version)
            /\ rs' = [rs EXCEPT !.pc = "success", !.result = "Document restored successfully"]
            /\ faults' = faults
            /\ UNCHANGED <<versions, clock, lastCall, criticalLogged>>
       ELSE /\ doc' = doc
            /\ IF ShouldCompensate(rs.retries) /\ RestoreHasRollbackInfo(rs)
               THEN LET r == SoftDeleteDocument(versions, clock, clock, g)
                        crit == r.outcome \in {"S3Error", "ValueError"}
                    IN  /\ g \in {"remove", "NoSuchKey"} \/ clock < MaxClock
                        /\ versions' = r.versions
                        /\ clock' = r.clock
                        /\ lastCall' = Call("soft_delete", NULL, g, r.outcome,
                                            versions, r.versions)
                        /\ criticalLogged' = (criticalLogged \/ crit)
                        /\ rs' = TaskRetry([rs EXCEPT !.dbFails = @ + 1,
                                                      !.compCalls = @ + 1,
                                                      !.compFailed = crit,
                                                      !.critical = crit], "DatabaseError")
               ELSE /\ g = "none"
                    /\ rs' = TaskRetry([rs EXCEPT !.dbFails = @ + 1], "DatabaseError")
                    /\ UNCHANGED <<versions, clock, lastCall, criticalLogged>>
            /\ faults' = faults + 1
    /\ UNCHANGED <<sd, up, upJobs, rt, launches, jobVars, retVars>>

-----------------------------------------------------------------------------
(* upload_document_task / DocumentService.upload_document for a file whose
   checksum is the document's *)

JobTerminal == {"success", "cancelled", "timeout", "failure"}

EnqueueUpload ==
    /\ ~InFlight(up)
    /\ launches < MaxLaunches
    /\ up' = [IdleTask EXCEPT !.pc = "queued", !.temp_file = TRUE]
    /\ launches' = launches + 1
    /\ UNCHANGED <<versions, clock, doc, sd, rs, upJobs, criticalLogged,
                   lastCall, rt, faults, jobVars, retVars>>

\* cleanup_temp_file(Path(temp_path))
CleanupTempFile(t) == [t EXCEPT !.temp_file = FALSE]

\* faulty variant: the task retries whatever the service raised
UploadTaskAnswerMut(t, exc) == TaskRetry(t, exc)

\* upload_document_task's except clauses: ExternalServiceError and
\* DatabaseError are answered with self.retry alone (which raises the error
\* itself once the retries are used up), anything else with
\* cleanup_temp_file and the end of the task
UploadTaskAnswer(t, exc) ==
    IF exc \in {"ExternalServiceError", "DatabaseError"}
    THEN TaskRetry(t, exc)
    ELSE CleanupTempFile(TaskFail(t, exc))

\* up.temp_file: the temporary upload file exists;
\* up.writes counts the task's successful object-store writes;
\* up.version_id holds the index of a reused (persistent) job row, NULL for a
\* row created in this transaction
UpStart ==
    /\ up.pc = "queued"
    /\ up' = IF ~GetById(doc)
             THEN \* a new Document without storage_key: NOT NULL violation
                  CleanupTempFile(TaskFail(up, "ResourceConflictError"))
             ELSE IF doc.storage_status = "active"
             THEN CleanupTempFile(TaskFail(up, "ResourceConflictError"))
             ELSE IF upJobs = <<>> \/ upJobs[Len(upJobs)] \in JobTerminal
             THEN [up EXCEPT !.pc = "store", !.version_id = NULL]
             ELSE IF upJobs[Len(upJobs)] = "retrying"
             THEN [up EXCEPT !.pc = "store", !.version_id = Len(upJobs)]
             ELSE CleanupTempFile(TaskFail(up, "BusinessLogicError"))
    /\ UNCHANGED <<versions, clock, doc, sd, rs, upJobs, criticalLogged,
                   lastCall, rt, faults, launches, jobVars, retVars>>

\* after db.rollback() a row created in the transaction is gone and the
\* mark_* on it persists nothing; a reused row takes the new status
PersistJobStatus(rows, idx, st) ==
    IF idx = NULL THEN rows ELSE [rows EXCEPT ![idx] = st]

\* mino_client.upload_file(...); on failure ExternalServiceError, rollback,
\* mark_retrying, and the task's self.retry
UpStore(f, lm) ==
    /\ up.pc = "store"
    /\ CanFault(f)
    /\ f # "none" \/ clock < MaxClock
    /\ lm \in Stamps(versions, clock)
    /\ CanTie(f, lm)
    /\ LET r == UploadFile(versions, clock, lm, f)
       IN  /\ versions' = r.versions
           /\ clock' = r.clock
           /\ lastCall' = Call("upload", NULL, f, r.outcome, versions, r.versions)
           /\ IF r.outcome = "uploaded"
              THEN /\ up' = [up EXCEPT !.pc = "db", !.last_version = r.vid,
                                        !.writes = @ + 1]
                   /\ upJobs' = upJobs
              ELSE /\ up' = UploadTaskAnswer(up, "ExternalServiceError")
                   /\ upJobs' = PersistJobStatus(upJobs, up.version_id, "retrying")
    /\ faults' = CountTie(f, lm)
    /\ UNCHANGED <<doc, sd, rs, criticalLogged, rt, launches, jobVars, retVars>>

\* document_crud.update_record_for_doc(db=, doc=, file_extension=, ...): the
\* keyword arguments do not match the method's parameters, so the call raises
\* TypeError; "except Exception": rollback, mark_failure, re-raise; the task
\* does not retry
UpDb ==
    /\ up.pc = "db"
    /\ up' = UploadTaskAnswer(up, "TypeError")
    /\ upJobs' = PersistJobStatus(upJobs, up.version_id, "failure")
    /\ UNCHANGED <<versions, clock, doc, sd, rs, criticalLogged, lastCall, rt,
                   faults, launches, jobVars, retVars>>

-----------------------------------------------------------------------------
(* DocumentJob table and process_document_task: each delivery runs the
   pipeline's stages in order through VectorizationService._execute_job, in
   a database session of its own, concurrently with other deliveries *)

\* worker processes
NumWorkers == 2
\* DocumentJob ids allocated
MaxJobs == 4
\* DocumentJob rows in a table handed to the job lookup
MaxSeed == 2
\* DocumentJob rows stored for the document when the pipeline is delivered
MaxStored == 1

Workers == 1..NumWorkers

\* (document_id, job_type) pairs of one document; CHUNK_TEXT takes the same
\* branches of _execute_job as EXTRACT_TEXT
Keys == {"extract_text", "embed_chunks"}

\* process_document_pipeline: the stages in the order they are run
Stages == <<"extract_text", "embed_chunks">>

\* the stage run after k, "" after the last one
NextStage(k) ==
    LET i == CHOOSE j \in 1..Len(Stages) : Stages[j] = k
    IN  IF i < Len(Stages) THEN Stages[i + 1] ELSE ""

\* pc, key, job, isNew: position in _execute_job and its validate_job;
\* result: how the task ended; retries: self.request.retries;
\* found: status of the latest job the lookup saw ("" for none);
\* ran: stages whose logic_fn this execution called;
\* raced: stages another delivery's logic_fn ran while this one had its own
\*        job row for the stage and had not started running it;
\* cause: the failure the last logic_fn raised;
\* interrupted: the stage at which the worker process died ("" when it
\*        never did)
IdleWorker == [pc |-> "idle", key |-> "", job |-> NULL, isNew |-> FALSE,
               result |-> "", retries |-> 0, found |-> "", ran |-> {},
               raced |-> {}, cause |-> "", interrupted |-> ""]

InitJob ==
    /\ jobs = <<>>
    /\ tx = [w \in Workers |-> <<>>]
    /\ wk = [w \in Workers |-> IdleWorker]
    /\ nextJob = 1

\* DocumentJobStatus
Statuses == {"pending", "running", "success", "failure", "retrying",
             "cancelled", "timeout"}

\* DocumentJob.is_terminal
IsTerminal(status) == status \in {"success", "cancelled", "timeout", "failure"}

\* the rows a session sees: committed rows overlaid with its own flushed ones
Visible(w) == tx[w] @@ jobs

\* get_document_job_by_type: ORDER BY created_at DESC LIMIT 1 (ids grow with
\* creation time); NULL when there is none
LatestJob(w, k) ==
    LET ids == {i \in DOMAIN Visible(w) : Visible(w)[i].key = k}
    IN  IF ids = {} THEN NULL ELSE CHOOSE i \in ids : \A j \in ids : j <= i

\* faulty variant: the new row does not reference the job it retries
NewJobMut(k, retry_of, parent_job_id) ==
    [key |-> k, status |-> "pending", retry_of |-> NULL,
     parent_job_id |-> parent_job_id,
     started_at |-> NULL, finished_at |-> NULL]

\* DocumentJob(document_id, job_type, status=PENDING, parent_job_id=...,
\* retry_of_job_id=...)
NewJob(k, retry_of, parent_job_id) ==
    [key |-> k, status |-> "pending", retry_of |-> retry_of,
     parent_job_id |-> parent_job_id,
     started_at |-> NULL, finished_at |-> NULL]

\* faulty variant: a successful EMBED_CHUNKS job is handled like the others
DecisionCreateMut(e, st, k) ==
    IF e = NULL THEN "create"
    ELSE IF IsTerminal(st) THEN "create"
    ELSE IF st = "retrying" THEN "reuse"
    ELSE "refuse"

\* faulty variant: a job that is not terminal is always taken over
DecisionReuseMut(e, st, k) ==
    IF e = NULL THEN "create"
    ELSE IF IsTerminal(st)
    THEN IF st = "success" /\ k = "embed_chunks" THEN "raise" ELSE "create"
    ELSE "reuse"

\* _execute_job's branch on the latest job e with status st for job type k:
\* "create" a PENDING row, "reuse" the row, "refuse" with BusinessLogicError,
\* or "raise": "return {...}, validate_job.id" is evaluated with validate_job
\* None and raises AttributeError
Decision(e, st, k) ==
    IF e = NULL THEN "create"
    ELSE IF IsTerminal(st)
    THEN IF st = "success" /\ k = "embed_chunks" THEN "raise" ELSE "create"
    ELSE IF st = "retrying" THEN "reuse"
    ELSE "refuse"

\* faulty variant: no unique index on running rows
RunningHeldByOtherMut(w, k) == FALSE

\* ix_document_jobs_unique_running: unique (document_id, job_type, status)
\* WHERE status = 'running'.  An uncommitted running row of another
\* transaction makes the writer wait; a committed one is a violation.
RunningHeldByOther(w, k) ==
    \E o \in Workers \ {w} : \E i \in DOMAIN tx[o] :
        tx[o][i].key = k /\ tx[o][i].status = "running"

RunningCommitted(id, k) ==
    \E i \in DOMAIN jobs : i # id /\ jobs[i].key = k /\ jobs[i].status = "running"

\* a row updated by another open transaction is locked
RowLockedByOther(w, id) == \E o \in Workers \ {w} : id \in DOMAIN tx[o]

\* datetime.now(timezone.utc) when a row is stamped: later than the stamps
\* the row carries
Now(row) ==
    (IF row.started_at > row.finished_at THEN row.started_at ELSE row.finished_at) + 1

\* faulty variant: the failure is recorded without finished_at
MarkFailureMut(row) == [row EXCEPT !.status = "failure"]

\* DocumentJob.mark_running / mark_success / mark_failure / mark_retrying
MarkRunning(row) == [row EXCEPT !.status = "running", !.started_at = Now(row)]
MarkSuccess(row) == [row EXCEPT !.status = "success", !.finished_at = Now(row)]
MarkFailure(row) == [row EXCEPT !.status = "failure", !.finished_at = Now(row)]
MarkRetrying(row) == [row EXCEPT !.status = "retrying"]

\* process_document_task is enqueued and delivered to w: the pipeline starts
\* at its first stage
WStart(w) ==
    /\ wk[w].pc = "idle"
    /\ nextJob <= MaxJobs
    /\ launches < MaxLaunches
    /\ launches' = launches + 1
    /\ wk' = [wk EXCEPT ![w] = [IdleWorker EXCEPT !.pc = "find",
                                                  !.key = Stages[1]]]
    /\ UNCHANGED <<jobs, tx, nextJob, versions, clock, doc, sd, rs, up, upJobs,
                   criticalLogged, lastCall, rt, faults, retVars>>

\* process_document_pipeline's parent_job_id argument for the stage w is at:
\* the task's parent job (None when the pipeline is requested through the
\* API) for the first stage, the job id the stage before returned otherwise
CurrentParentJobId(w) ==
    IF wk[w].key = Stages[1] THEN NULL ELSE wk[w].job

\* _execute_job up to the job row: create, reuse, or an exception that ends
\* the task (AttributeError and BusinessLogicError are not retried)
WFind(w) ==
    /\ wk[w].pc = "find"
    /\ LET k == wk[w].key
           e == LatestJob(w, k)
           st == IF e = NULL THEN "" ELSE Visible(w)[e].status
           d == Decision(e, st, k)
           seen == [wk[w] EXCEPT !.found = st, !.cause = ""]
       IN  CASE d = "create" ->
                  /\ nextJob <= MaxJobs
                  /\ tx' = [tx EXCEPT ![w] = (nextJob :> NewJob(k, e, CurrentParentJobId(w))) @@ tx[w]]
                  /\ nextJob' = nextJob + 1
                  /\ wk' = [wk EXCEPT ![w] = [seen EXCEPT !.pc = "mark",
                                                !.job = nextJob, !.isNew = TRUE]]
             [] d = "reuse" ->
                  /\ wk' = [wk EXCEPT ![w] = [seen EXCEPT !.pc = "mark",
                                                !.job = e, !.isNew = FALSE]]
                  /\ UNCHANGED <<tx, nextJob>>
             [] d = "raise" ->
                  /\ wk' = [wk EXCEPT ![w] = [seen EXCEPT !.pc = "idle",
                                                !.result = "AttributeError"]]
                  /\ UNCHANGED <<tx, nextJob>>
             [] OTHER ->
                  /\ wk' = [wk EXCEPT ![w] = [seen EXCEPT !.pc = "idle",
                                                !.result = "BusinessLogicError"]]
                  /\ UNCHANGED <<tx, nextJob>>
    /\ UNCHANGED <<jobs, delVars, retVars>>

\* after db.rollback(): a row created in the transaction is expunged and the
\* mark_* on it persists nothing; a reused row is updated and committed
AfterRollback(w, status) ==
    IF wk[w].isNew \/ wk[w].job = NULL \/ wk[w].job \notin DOMAIN jobs
    THEN jobs
    ELSE [jobs EXCEPT ![wk[w].job] = IF status = "retrying" THEN MarkRetrying(@)
                                     ELSE MarkFailure(@)]

\* document_job_crud.mark_running: UPDATE ... flush
WMarkRunning(w) ==
    /\ wk[w].pc = "mark"
    /\ LET k == wk[w].key
           id == wk[w].job
       IN  /\ ~RunningHeldByOther(w, k)
           /\ ~RowLockedByOther(w, id)
           /\ IF RunningCommitted(id, k)
              THEN \* IntegrityError: rollback, mark_failure, ResourceConflictError
                   /\ jobs' = AfterRollback(w, "failure")
                   /\ tx' = [tx EXCEPT ![w] = <<>>]
                   /\ wk' = [wk EXCEPT ![w].pc = "idle",
                                       ![w].result = "ResourceConflictError"]
              ELSE /\ tx' = [tx EXCEPT ![w] =
                               (id :> MarkRunning(Visible(w)[id])) @@ tx[w]]
                   /\ wk' = [wk EXCEPT ![w].pc = "logic"]
                   /\ jobs' = jobs
    /\ UNCHANGED <<nextJob, delVars, retVars>>

\* what logic_fn does: returns, or raises one of the requests exceptions or
\* S3Error ("network"), ExternalServiceError itself ("external"), an
\* SQLAlchemyError ("database"), or any other exception, ValidationError and
\* NotFoundError included ("error")
LogicOutcomes == {"ok", "network", "external", "database", "error"}

\* the status the exception handler of _execute_job marks the job with
HandlerMarks(o) == IF o = "network" THEN "retrying" ELSE "failure"

\* the exception that leaves _execute_job; DatabaseError(message=...,
\* error_code=...) does not match DatabaseError.__init__ and raises TypeError
Raised(o) ==
    CASE o = "network"  -> "ExternalServiceError"
      [] o = "external" -> "ExternalServiceError"
      [] o = "database" -> "TypeError"
      [] OTHER          -> "Exception"

\* process_document_task answers only ExternalServiceError with self.retry
IsRetryable(exc) == exc = "ExternalServiceError"

\* self.retry(exc=...): re-queued while request.retries < max_retries
CanRetry(retries) == retries < max_retries

\* the worker's record once logic_fn was called and ended with outcome o
AfterLogic(w, o) ==
    LET k == wk[w].key
        r == [wk[w] EXCEPT !.ran = @ \cup {k}, !.cause = IF o = "ok" THEN "" ELSE o]
    IN  IF o = "ok"
        THEN IF NextStage(k) = ""
             THEN [r EXCEPT !.pc = "idle", !.result = "ok"]
             ELSE [r EXCEPT !.pc = "find", !.key = NextStage(k), !.found = ""]
        ELSE IF IsRetryable(Raised(o)) /\ CanRetry(wk[w].retries)
        THEN [r EXCEPT !.pc = "find", !.key = Stages[1], !.retries = @ + 1,
                       !.ran = {}, !.raced = {}, !.found = ""]
        ELSE [r EXCEPT !.pc = "idle", !.result = Raised(o)]

\* logic_fn(), then mark_success + commit, or the exception handlers, and
\* process_document_task's answer to the exception
WLogic(w, o) ==
    /\ wk[w].pc = "logic"
    /\ o \in LogicOutcomes
    /\ jobs' = IF o = "ok"
               THEN [i \in DOMAIN tx[w] |->
                       IF i = wk[w].job THEN MarkSuccess(tx[w][i]) ELSE tx[w][i]]
                    @@ jobs
               ELSE AfterRollback(w, HandlerMarks(o))
    /\ wk' = [x \in Workers |->
                IF x = w THEN AfterLogic(w, o)
                ELSE IF wk[x].pc = "mark" /\ wk[x].key = wk[w].key
                THEN [wk[x] EXCEPT !.raced = @ \cup {wk[w].key}]
                ELSE wk[x]]
    /\ tx' = [tx EXCEPT ![w] = <<>>]
    /\ UNCHANGED <<nextJob, delVars, retVars>>

\* faulty variant: what the dying worker had flushed stays in the table
ConnectionLostMut(w) == tx[w] @@ jobs

\* the table once the connection of w's session is gone: mark_running only
\* flushed, so the open transaction is rolled back and nothing of it is stored
ConnectionLost(w) == jobs

\* the worker process dies while w executes a stage (task_acks_late and
\* task_reject_on_worker_lost: the message was not acknowledged and is
\* delivered again, request.retries unchanged); at most once per worker
WCrash(w) ==
    /\ wk[w].pc \in {"mark", "logic"}
    /\ wk[w].interrupted = ""
    /\ jobs' = ConnectionLost(w)
    /\ tx' = [tx EXCEPT ![w] = <<>>]
    /\ wk' = [wk EXCEPT ![w] = [IdleWorker EXCEPT !.pc = "find",
                                                  !.key = Stages[1],
                                                  !.retries = wk[w].retries,
                                                  !.interrupted = wk[w].key]]
    /\ UNCHANGED <<nextJob, delVars, retVars>>

\* a DocumentJob row as stored with a given status
SeedRow(k, st) ==
    [key |-> k, status |-> st, retry_of |-> NULL, parent_job_id |-> NULL,
     started_at |-> IF st # "pending" THEN 1 ELSE NULL,
     finished_at |-> IF st \in {"success", "failure", "timeout"} THEN 2 ELSE NULL]

\* tables of up to n rows that respect the unique index on running rows
TablesUpTo(n) ==
    LET all == UNION {[1..m -> {SeedRow(k, st) : k \in Keys, st \in Statuses}]
                        : m \in 0..n}
    IN  {t \in all : \A i, j \in DOMAIN t :
            (t[i].status = "running" /\ t[j].status = "running"
             /\ t[i].key = t[j].key) => i = j}

\* the job lookup's inputs: any table of up to MaxSeed rows
InitLookup ==
    /\ jobs \in TablesUpTo(MaxSeed)
    /\ tx = [w \in Workers |-> <<>>]
    /\ wk = [w \in Workers |-> IdleWorker]
    /\ nextJob = Len(jobs) + 1

\* the pipeline's input: the document's stored DocumentJob rows
InitStored ==
    /\ jobs \in TablesUpTo(MaxStored)
    /\ tx = [w \in Workers |-> <<>>]
    /\ wk = [w \in Workers |-> IdleWorker]
    /\ nextJob = Len(jobs) + 1

\* the pipeline's input when an earlier delivery stopped at its last stage:
\* that delivery's EXTRACT_TEXT job, successful, and its EMBED_CHUNKS job,
\* child of the former, waiting for a retry
InitResumed ==
    /\ jobs = <<SeedRow("extract_text", "success"),
                [SeedRow("embed_chunks", "retrying") EXCEPT !.parent_job_id = 1]>>
    /\ tx = [w \in Workers |-> <<>>]
    /\ wk = [w \in Workers |-> IdleWorker]
    /\ nextJob = Len(jobs) + 1

\* _execute_job(document_id, job_type = k, ...) is entered
CallExecuteJob(w, k) ==
    /\ wk[w].pc = "idle"
    /\ wk' = [wk EXCEPT ![w] = [IdleWorker EXCEPT !.pc = "find", !.key = k]]
    /\ UNCHANGED <<jobs, tx, nextJob, delVars, retVars>>

-----------------------------------------------------------------------------
(* The adapter's operations called in any order on the document's key *)

CallUploadFile(f, lm) ==
    /\ f # "none" \/ clock < MaxStoreClock
    /\ lm \in Stamps(versions, clock)
    /\ f # "none" => lm = clock
    /\ LET r == UploadFile(versions, clock, lm, f)
       IN  /\ versions' = r.versions
           /\ clock' = r.clock
           /\ lastCall' = Call("upload", NULL, f, r.outcome, versions, r.versions)
    /\ UNCHANGED <<doc, sd, rs, up, upJobs, criticalLogged, rt, faults, launches,
                   jobVars, retVars>>

CallSoftDeleteDocument(f, lm) ==
    /\ f \in {"remove", "NoSuchKey"} \/ clock < MaxStoreClock
    /\ lm \in Stamps(versions, clock)
    /\ f \in {"remove", "NoSuchKey"} => lm = clock
    /\ LET r == SoftDeleteDocument(versions, clock, lm, f)
       IN  /\ versions' = r.versions
           /\ clock' = r.clock
           /\ lastCall' = Call("soft_delete", NULL, f, r.outcome, versions, r.versions)
    /\ UNCHANGED <<doc, sd, rs, up, upJobs, criticalLogged, rt, faults, launches,
                   jobVars, retVars>>

CallRestoreDocument(v, f) ==
    /\ LET r == RestoreDocument(versions, v, f)
       IN  /\ versions' = r.versions
           /\ lastCall' = Call("restore", v, f, r.outcome, versions, r.versions)
    /\ UNCHANGED <<clock, doc, sd, rs, up, upJobs, criticalLogged, rt, faults,
                   launches, jobVars, retVars>>

-----------------------------------------------------------------------------
(* Retention: the periodic sweep for expired soft-deleted documents and the
   permanent deletion of a document.  Time is counted in days; documents are
   soft-deleted on day 1 or day 2 and the first sweep runs when the retention
   period has passed since day 1. *)

SoftDeletedDoc(day) == [is_deleted |-> TRUE, deleted_at |-> day]
ActiveDoc == [is_deleted |-> FALSE, deleted_at |-> NULL]

FirstSweepDay == DOCUMENT_RETENTION_PERIOD_DAYS + 1

\* a table of a rows soft-deleted on day 1, b on day 2, and c not deleted
TableOf(a, b, c) ==
    [i \in 1..(a + b + c) |->
        IF i <= a THEN SoftDeletedDoc(1)
        ELSE IF i <= a + b THEN SoftDeletedDoc(2)
        ELSE ActiveDoc]

NoSweep == [at |-> NULL, ids |-> {}, result |-> "", scheduled_count |-> NULL]

\* the versions stored under a document's key: its content version and, for
\* a soft-deleted document, the delete marker
ObjectsOf(d) == IF d.is_deleted THEN {"content", "marker"} ELSE {"content"}

\* pc: "idle", "queued", "success" or "failed"; origin: who enqueued the task
\* ("api" or "sweep"); swallowed: the adapter logged an S3Error and returned
NoPurgeTask == [pc |-> "idle", retries |-> 0, result |-> "", origin |-> "",
                swallowed |-> FALSE]

\* the object store and the queue for the rows of a table
InitObjects ==
    /\ objects = [i \in DOMAIN documents |-> ObjectsOf(documents[i])]
    /\ pd = [i \in DOMAIN documents |-> NoPurgeTask]

\* no table is scanned
InitNoRetention ==
    /\ documents = <<>>
    /\ today = FirstSweepDay
    /\ expired = NoSweep
    /\ InitObjects

\* the sweep's inputs: tables larger than the batch limit included
InitSweep ==
    /\ \E a \in 0..MaxExpired, b \in 0..MaxRecent, c \in 0..MaxActive :
           documents = TableOf(a, b, c)
    /\ today = FirstSweepDay
    /\ expired = NoSweep
    /\ InitObjects

\* the tables permanent deletion is requested on
InitPurge ==
    /\ documents \in [1..MaxDocs -> {ActiveDoc, SoftDeletedDoc(1), SoftDeletedDoc(2)}]
    /\ today = FirstSweepDay
    /\ expired = NoSweep
    /\ InitObjects

\* faulty variant: the query has no LIMIT
GetExpiredSoftDeletedMut(table, cutoff_date, limit) ==
    {i \in DOMAIN table : /\ table[i].is_deleted
                          /\ table[i].deleted_at # NULL
                          /\ table[i].deleted_at <= cutoff_date}

\* DocumentCRUD.get_expired_soft_deleted(db, cutoff_date, limit): the ids of
\* the rows returned.  ORDER BY deleted_at ASC LIMIT limit; rows with equal
\* deleted_at are taken in id order
GetExpiredSoftDeleted(table, cutoff_date, limit) ==
    LET match == {i \in DOMAIN table : /\ table[i].is_deleted
                                       /\ table[i].deleted_at # NULL
                                       /\ table[i].deleted_at <= cutoff_date}
        Before(j, i) == \/ table[j].deleted_at < table[i].deleted_at
                        \/ (table[j].deleted_at = table[i].deleted_at /\ j < i)
    IN  {i \in match : Cardinality({j \in match : Before(j, i)}) < limit}

\* _find_expired_documents: cutoff_date = now - DOCUMENT_RETENTION_PERIOD_DAYS
FindExpiredDocuments ==
    GetExpiredSoftDeleted(documents, today - DOCUMENT_RETENTION_PERIOD_DAYS,
                          ExpiredBatchLimit)

\* the parameters of permanent_delete_document_task(self, doc_id, user_id)
PermanentDeleteParameters == {"doc_id", "user_id"}

\* the keyword arguments of the signature the sweep builds for a document
SweepSignatureKwargs == {"doc_id", "user_id", "storage_key"}

\* the keyword arguments permanently_delete_document_by_id sends
ApiSignatureKwargs == {"doc_id", "user_id"}

\* apply_async binds the arguments to the task's parameters before it
\* publishes the message: a keyword the task does not take raises TypeError
CheckArguments(kwargs) == kwargs = PermanentDeleteParameters

QueuedPurgeTask(origin) == [NoPurgeTask EXCEPT !.pc = "queued", !.origin = origin]

\* schedule_permanent_deletion_task: the sweep.  No document found: the
\* summary with scheduled_count 0.  Otherwise one signature per document is
\* built and the group is applied; when apply_async raises, no message has
\* been published and the sweep ends with the exception, without a summary
Sweep ==
    \E found \in {FindExpiredDocuments} :
    \E published \in {found = {} \/ CheckArguments(SweepSignatureKwargs)} :
        /\ expired' = [at |-> today, ids |-> found,
                       result |-> IF published THEN "success" ELSE "TypeError",
                       scheduled_count |-> IF published THEN Cardinality(found)
                                           ELSE NULL]
        /\ pd' = [i \in DOMAIN pd |->
                    IF published /\ i \in found THEN QueuedPurgeTask("sweep")
                    ELSE pd[i]]
        /\ UNCHANGED <<documents, today, objects, delVars, jobVars>>

AdvanceDay ==
    /\ today < DOCUMENT_RETENTION_PERIOD_DAYS + MaxDays
    /\ today' = today + 1
    /\ UNCHANGED <<documents, expired, objects, pd, delVars, jobVars>>

\* DELETE /documents/permanently/{doc_id}, permanently_delete_document_by_id:
\* permanent_delete_document_task is enqueued for the id, whatever the row
RequestPermanentDelete(i) ==
    /\ i \in DOMAIN pd
    /\ pd[i].pc # "queued"
    /\ launches < MaxLaunches
    /\ CheckArguments(ApiSignatureKwargs)
    /\ pd' = [pd EXCEPT ![i] = QueuedPurgeTask("api")]
    /\ launches' = launches + 1
    /\ UNCHANGED <<documents, today, expired, objects, versions, clock, doc, sd,
                   rs, up, upJobs, criticalLogged, lastCall, rt, faults, jobVars>>

\* what one execution of the task meets: nothing ("ok"), an S3Error or a
\* ConnectionError of the object store, an SQLAlchemyError ("database") or an
\* IntegrityError ("integrity") of the row's deletion
PermanentDeleteOutcomes == {"ok", "S3Error", "ConnectionError", "database",
                            "integrity"}

\* the versions left under a key by permanent_delete_document when the store
\* fails: the listing or one of the removals raised, so at least one version
\* of a non-empty key is left
LeftByFailedRemoval(vs) == {s \in SUBSET vs : s # {} \/ vs = {}}

\* MinioClient.permanent_delete_document: "except S3Error" logs and returns,
\* "except Exception" re-raises
PermanentDeleteDocumentRaises(o) == o = "ConnectionError"

\* one execution of permanent_delete_document_task(doc_id = i): the row is
\* fetched with get_record_include_soft_delete ("not found" is a success),
\* the versions of its key are removed, then the row is deleted and the
\* deletion committed
PermanentDelete(i, o, left) ==
    /\ i \in DOMAIN pd
    /\ pd[i].pc = "queued"
    /\ IF i \notin DOMAIN documents
       THEN /\ o = "ok" /\ left = {}
            /\ pd' = [pd EXCEPT ![i].pc = "success",
                                ![i].result = "Document not found, considered deleted"]
            /\ UNCHANGED <<documents, objects>>
       ELSE /\ IF o \in {"S3Error", "ConnectionError"}
               THEN left \in LeftByFailedRemoval(objects[i])
               ELSE left = {}
            /\ objects' = [objects EXCEPT ![i] = left]
            /\ IF PermanentDeleteDocumentRaises(o)
               THEN /\ pd' = [pd EXCEPT ![i] = TaskRetry(@, "ExternalServiceError")]
                    /\ documents' = documents
               ELSE IF o = "database"
               THEN /\ pd' = [pd EXCEPT ![i] = TaskRetry(@, "DatabaseError")]
                    /\ documents' = documents
               ELSE IF o = "integrity"
               THEN /\ pd' = [pd EXCEPT ![i] = TaskFail(@, "ResourceConflictError")]
                    /\ documents' = documents
               ELSE /\ pd' = [pd EXCEPT ![i].pc = "success",
                                        ![i].result = "Permanent delete successful",
                                        ![i].swallowed = (o = "S3Error")]
                    /\ documents' = [j \in DOMAIN documents \ {i} |-> documents[j]]
    /\ UNCHANGED <<today, expired, delVars, jobVars>>

-----------------------------------------------------------------------------
(* Specifications *)

Init == InitDel /\ InitJob /\ InitNoRetention

NextDel ==
    \/ EnqueueSoftDelete
    \/ SdFetch
    \/ \E f \in SoftDeleteFaults, lm \in 1..MaxClock : SdStore(f, lm)
    \/ \E ok \in BOOLEAN : SdDb(ok)
    \/ \E f \in RestoreFaults : SdCompensate(f)
    \/ \E v \in 1..MaxClock : EnqueueRestore(v)
    \/ RsFetch
    \/ \E f \in RestoreFaults : RsStore(f)
    \/ \E ok \in BOOLEAN, g \in SoftDeleteFaults : RsDb(ok, g)
    \/ EnqueueUpload
    \/ UpStart
    \/ \E f \in UploadFaults, lm \in 1..MaxClock : UpStore(f, lm)
    \/ UpDb

NextStore ==
    \/ \E f \in UploadFaults, lm \in 1..MaxStoreClock : CallUploadFile(f, lm)
    \/ \E f \in SoftDeleteFaults, lm \in 1..MaxStoreClock : CallSoftDeleteDocument(f, lm)
    \/ \E v \in 1..MaxStoreClock, f \in RestoreFaults : CallRestoreDocument(v, f)

NextJob ==
    \/ \E w \in Workers : WStart(w)
    \/ \E w \in Workers : WFind(w)
    \/ \E w \in Workers : WMarkRunning(w)
    \/ \E w \in Workers, o \in LogicOutcomes : WLogic(w, o)

DelSpec == Init /\ [][NextDel]_vars

StoreSpec == Init /\ [][NextStore]_vars

\* the pipeline is run for an uploaded document whose object is stored
InitPipeline == Init /\ doc.storage_status = "active"

JobSpec == InitPipeline /\ [][NextJob]_vars

NextLookup ==
    \/ \E w \in Workers, k \in Keys : CallExecuteJob(w, k)
    \/ \E w \in Workers : WFind(w)

\* the lookup is run for an uploaded document on any table of its jobs
LookupInit ==
    InitDel /\ doc.storage_status = "active" /\ InitLookup /\ InitNoRetention

LookupSpec == LookupInit /\ [][NextLookup]_vars

\* the pipeline is run for an uploaded document that has stored job rows
StoredInit ==
    InitDel /\ doc.storage_status = "active" /\ InitStored /\ InitNoRetention

StoredSpec == StoredInit /\ [][NextJob]_vars

\* the pipeline is run again for a document whose earlier run was interrupted
ResumedInit ==
    InitDel /\ doc.storage_status = "active" /\ InitResumed /\ InitNoRetention

ResumedSpec == ResumedInit /\ [][NextJob]_vars

\* vectorize_document (POST /{doc_id}/vectorize): the document exists and its
\* latest EMBED_CHUNKS job is not SUCCESS; process_document_task is enqueued
\* and delivered to w
EnqueueVectorize(w) ==
    /\ wk[w].pc = "idle"
    /\ launches < MaxLaunches
    /\ GetById(doc)
    /\ LET e == LatestJob(w, "embed_chunks")
       IN  IF e = NULL THEN TRUE ELSE jobs[e].status # "success"
    /\ wk' = [wk EXCEPT ![w] = [IdleWorker EXCEPT !.pc = "find",
                                                  !.key = Stages[1],
                                                  !.interrupted = wk[w].interrupted]]
    /\ launches' = launches + 1
    /\ UNCHANGED <<jobs, tx, nextJob, versions, clock, doc, sd, rs, up, upJobs,
                   criticalLogged, lastCall, rt, faults, retVars>>

\* deliveries whose worker may die and whose stages otherwise do not fail
NextCrash ==
    \/ \E w \in Workers : EnqueueVectorize(w)
    \/ \E w \in Workers : WFind(w)
    \/ \E w \in Workers : WMarkRunning(w)
    \/ \E w \in Workers : WLogic(w, "ok")
    \/ \E w \in Workers : WCrash(w)

\* the code a delivered task runs next
WStep(w) == WFind(w) \/ WMarkRunning(w) \/ WLogic(w, "ok")

\* a delivered task runs its code to the end
CrashFairness == \A w \in Workers : WF_vars(WStep(w))

CrashSpec == InitPipeline /\ [][NextCrash]_vars /\ CrashFairness

NextSweep ==
    \/ Sweep
    \/ AdvanceDay

\* the sweep is run on any table, day after day
SweepInit == InitDel /\ InitJob /\ InitSweep

SweepSpec == SweepInit /\ [][NextSweep]_vars

NextPurge ==
    \/ \E i \in 1..MaxDocs : RequestPermanentDelete(i)
    \/ \E i \in 1..MaxDocs, o \in PermanentDeleteOutcomes,
          left \in SUBSET {"content", "marker"} : PermanentDelete(i, o, left)
    \/ Sweep
    \/ AdvanceDay

\* permanent deletion is requested for any document of a table
PurgeInit == InitDel /\ InitJob /\ InitPurge

PurgeSpec == PurgeInit /\ [][NextPurge]_vars

\* the sweep and permanent deletion when the object store and the database
\* do not fail
NextRetention ==
    \/ Sweep
    \/ AdvanceDay
    \/ \E i \in 1..MaxDocs : RequestPermanentDelete(i)
    \/ \E i \in 1..MaxDocs : PermanentDelete(i, "ok", {})

\* a queued permanent-delete task is executed by a worker
RetentionFairness == \A i \in 1..MaxDocs : WF_vars(PermanentDelete(i, "ok", {}))

RetentionSpec == PurgeInit /\ [][NextRetention]_vars /\ RetentionFairness

Spec == DelSpec

-----------------------------------------------------------------------------
(* Properties *)

\* ids of the rows with status RUNNING for job type k, in the committed table
\* or in any open transaction
RunningRows(k) ==
    {i \in DOMAIN jobs : jobs[i].key = k /\ jobs[i].status = "running"}
    \cup UNION {{i \in DOMAIN tx[w] : tx[w][i].key = k /\ tx[w][i].status = "running"}
                : w \in Workers}

\* C1: for the document and every job type, at every instant at most one
\* DocumentJob row has status RUNNING, also while several workers create and
\* start jobs for the same (document, job type) concurrently.
C1_AtMostOneRunning == \A k \in Keys : Cardinality(RunningRows(k)) <= 1

\* two workers hold a new job row for the same job type; one has marked its
\* row RUNNING, the other is about to
C1_Witness ==
    \E w1, w2 \in Workers :
        /\ w1 # w2
        /\ wk[w1].key = wk[w2].key
        /\ wk[w1].pc = "logic" /\ wk[w1].job \in RunningRows(wk[w1].key)
        /\ wk[w2].pc = "mark" /\ wk[w2].isNew /\ wk[w2].job # wk[w1].job

\* C2: whenever no soft-delete or restore task is in progress and no CRITICAL
\* inconsistency event has been logged, is_deleted is true if and only if the
\* latest object-store version of the storage key is a delete marker.
C2_FlagAgreesWithStore ==
    (~InFlight(sd) /\ ~InFlight(rs) /\ ~criticalLogged)
        => (doc.is_deleted <=> LatestVersion(versions).dm)

\* C3: the Document row is committed in a post-operation state (ACTIVE with a
\* version id, soft-deleted, restored) only by a task whose object-store
\* operation has succeeded in the same attempt, with the version id that
\* operation returned; a step in which the object-store operation fails
\* changes no Document row and leaves no job row with status success.
C3_StoreBeforeDatabase ==
    [][ /\ doc' # doc =>
             \/ /\ doc'.is_deleted /\ doc'.storage_status = "deleted"
                /\ sd.pc = "db" /\ sd.version_id # NULL
                /\ doc'.version_id = sd.version_id
             \/ /\ ~doc'.is_deleted /\ doc.is_deleted
                /\ rs.pc = "db" /\ rs.removedOk
                /\ doc'.version_id = rs.last_version
             \/ /\ ~doc'.is_deleted /\ doc'.storage_status = "active"
                /\ up.pc = "db" /\ up.last_version # NULL
                /\ doc'.version_id = up.last_version
        /\ \A t \in {<<sd, sd'>>, <<rs, rs'>>, <<up, up'>>} :
             (t[1].pc = "store" /\ t[2].pc \in {"queued", "failed"})
                 => /\ doc' = doc
                    /\ \A i \in DOMAIN upJobs' : upJobs'[i] # "success"
      ]_vars

\* the soft-delete task added its delete marker and then committed the row
\* with that marker's version id
C3_Witness ==
    /\ sd.pc = "success" /\ sd.markerOk >= 1
    /\ doc.is_deleted /\ doc.version_id = sd.version_id
    /\ \E v \in Range(versions) : v.dm /\ v.vid = doc.version_id

\* C4: when the soft-delete task's delete marker succeeds and its database
\* update fails on every attempt, exactly one compensating restore call is
\* made over the life of the task, and only once the retry budget is exhausted.
C4_OneCompensationAtExhaustion ==
    /\ sd.compCalls <= 1
    /\ sd.compCalls = 1 => sd.retries = max_retries
    /\ sd.pc = "compensate" => sd.retries = max_retries
    /\ (sd.pc = "failed" /\ sd.result = "DatabaseError") => sd.compCalls = 1

\* the marker was added and the database update failed on each of the
\* max_retries + 1 attempts, and the task has ended
C4_Witness ==
    /\ sd.pc = "failed" /\ sd.result = "DatabaseError"
    /\ sd.markerOk = max_retries + 1 /\ sd.dbFails = max_retries + 1
    /\ sd.compCalls = 1

\* C5: in the soft-delete task a CRITICAL data-inconsistency event is logged
\* if and only if a compensating restore was attempted and itself failed.
C5_CriticalIffCompensationFailed ==
    /\ sd.critical <=> (sd.compCalls >= 1 /\ sd.compFailed)
    /\ sd.critical => criticalLogged

\* one task whose compensating restore was attempted and failed
C5_Witness ==
    /\ sd.pc = "failed" /\ sd.compCalls = 1 /\ sd.compFailed /\ sd.critical
    /\ lastCall.op = "restore" /\ lastCall.outcome # "restored"

\* C6: when the restore task's delete-marker removal succeeds and its database
\* update fails until the retry budget is exhausted, the task attempts a
\* compensating soft-delete of the key.
C6_RestoreCompensates ==
    (rs.pc = "failed" /\ rs.result = "DatabaseError" /\ rs.removedOk)
        => rs.compCalls >= 1

\* C7: for a document in ACTIVE state, a successful soft-delete followed
\* immediately by a restore with the returned delete-marker version id leaves
\* storage_status ACTIVE and is_deleted false, and the key's versions, hence
\* its current content version, as they were before the soft-delete.
C7_RoundTrip ==
    [][ ( /\ rs.pc = "db" /\ rs'.pc = "success"
          /\ rt.set /\ rt.wasActive
          /\ ~LatestVersion(rt.pre).dm
          /\ RemoveVersion(rt.post, rt.vid) = rt.pre
          /\ rs.version_id = rt.vid
          /\ rs.pre = rt.post )
        => ( /\ doc'.storage_status = "active"
             /\ ~doc'.is_deleted
             /\ versions' = rt.pre
             /\ doc'.version_id = LatestVersion(rt.pre).vid )
      ]_vars

\* C8: a restore called with a version_id different from the key's current
\* latest delete-marker version fails with a validation error and changes
\* neither the versions of the key nor the Document row.
C8_MismatchedRestoreChangesNothing ==
    [][ /\ ( /\ rs.pc = "store" /\ rs'.pc # "store"
             /\ lastCall'.fault = "none"
             /\ rs.version_id # LatestDeleteMarkerVersion(versions).vid )
           => ( /\ lastCall'.outcome = "ValueError"
                /\ rs'.pc = "failed" /\ rs'.result = "ValueError"
                /\ versions' = versions
                /\ doc' = doc )
        /\ ( /\ sd.pc = "compensate" /\ sd'.pc # "compensate"
             /\ lastCall'.fault = "none"
             /\ sd.version_id # LatestDeleteMarkerVersion(versions).vid )
           => ( /\ lastCall'.outcome = "ValueError"
                /\ versions' = versions
                /\ doc' = doc )
      ]_vars

\* a restore task was given the id of a delete marker that is not the key's
\* latest one and has ended with the validation error
C8_Witness ==
    /\ rs.pc = "failed" /\ rs.result = "ValueError"
    /\ lastCall.op = "restore" /\ lastCall.fault = "none"
    /\ lastCall.arg = rs.version_id
    /\ LatestDeleteMarkerVersion(lastCall.pre) # NoVersion
    /\ lastCall.arg # LatestDeleteMarkerVersion(lastCall.pre).vid
    /\ \E v \in Range(lastCall.pre) : v.dm /\ v.vid = lastCall.arg
    /\ lastCall.post = lastCall.pre /\ versions = lastCall.pre

\* C9: restore removes a delete marker only if the key's latest version is
\* itself a delete marker whose version id equals the supplied version_id; it
\* fails with a validation error when that delete marker has been superseded
\* by a newer upload or a newer delete marker.
C9_RestoreOnlyLatestMarker ==
    (lastCall.op = "restore" /\ lastCall.fault = "none")
        => LET latest == LastWritten(lastCall.pre)
               isLatestMarker == latest.dm /\ latest.vid = lastCall.arg
           IN  /\ lastCall.post # lastCall.pre => isLatestMarker
               /\ ~isLatestMarker => lastCall.outcome = "ValueError"

\* C10: the adapter's soft-delete on a key whose latest version is already a
\* delete marker returns an "already deleted" status without raising an error
\* and without adding another delete-marker version.
C10_SoftDeleteIdempotent ==
    ( /\ lastCall.op = "soft_delete" /\ lastCall.fault = "none"
      /\ LatestVersion(lastCall.pre).dm )
        => ( /\ lastCall.outcome = "already_deleted"
             /\ lastCall.post = lastCall.pre )

\* C11: soft-delete of a key only adds a delete-marker version: every content
\* version of the key present before the call is still present, with the same
\* version id, after it.
C11_SoftDeleteKeepsContent ==
    lastCall.op = "soft_delete"
        => /\ \A v \in Range(lastCall.pre) : ~v.dm => v \in Range(lastCall.post)
           /\ \A v \in Range(lastCall.post) \ Range(lastCall.pre) : v.dm
           /\ Len(lastCall.post) <= Len(lastCall.pre) + 1

C11_Witness ==
    /\ lastCall.op = "soft_delete" /\ lastCall.outcome = "soft_deleted"
    /\ \E v \in Range(lastCall.pre) : ~v.dm
    /\ Len(lastCall.post) = Len(lastCall.pre) + 1
    /\ LastWritten(lastCall.post).dm

\* C12: for every stage type, when the latest job for (document, stage type)
\* has status SUCCESS, running that stage again creates no new job row and
\* does not execute the stage's side-effecting logic again.
C12_SuccessShortCircuits ==
    \A w \in Workers :
        wk[w].found = "success"
            => /\ wk[w].pc \notin {"mark", "logic"}
               /\ wk[w].key \notin wk[w].ran

\* C13: re-invoking the pipeline for a document whose latest EMBED_CHUNKS job
\* has status SUCCESS performs no call to the embedding/vector store and adds
\* no vector-chunk rows (both are done by the stage's logic function only).
C13_EmbedNotRepeated ==
    \A w \in Workers :
        (wk[w].key = "embed_chunks" /\ wk[w].found = "success")
            => /\ wk[w].pc = "idle"
               /\ "embed_chunks" \notin wk[w].ran
               /\ tx[w] = <<>>

C13_Witness ==
    \E w \in Workers :
        /\ wk[w].key = "embed_chunks" /\ wk[w].found = "success"
        /\ wk[w].pc = "idle" /\ wk[w].ran = {"extract_text"}
        /\ \E i \in DOMAIN jobs :
             jobs[i].key = "embed_chunks" /\ jobs[i].status = "success"

\* C14: re-invoking the pipeline for a document whose latest EMBED_CHUNKS job
\* has status SUCCESS completes without error and returns the original job's
\* id and output.
C14_ReinvokeCompletes ==
    \A w \in Workers :
        (wk[w].key = "embed_chunks" /\ wk[w].found = "success"
         /\ wk[w].pc = "idle")
            => wk[w].result = "ok"

\* C15: when two orchestrations run the same stage for the same document
\* concurrently, at most one of them executes the stage's side-effecting
\* logic; the other aborts before performing any side effect.
C15_OneOrchestrationExecutes ==
    \A w \in Workers : wk[w].raced \cap wk[w].ran = {}

C18_RetryRowOrReuse ==
    [][ \A w \in Workers :
          (wk[w].pc = "find" /\ wk'[w].pc # "find")
              => LET k == wk[w].key
                     e == LatestJob(w, k)
                     st == IF e = NULL THEN "" ELSE Visible(w)[e].status
                 IN  /\ st \in {"failure", "timeout", "cancelled"}
                          => /\ DOMAIN tx'[w] = DOMAIN tx[w] \cup {nextJob}
                             /\ nextJob \notin DOMAIN Visible(w)
                             /\ \A i \in DOMAIN tx[w] : tx'[w][i] = tx[w][i]
                             /\ tx'[w][nextJob].key = k
                             /\ tx'[w][nextJob].status = "pending"
                             /\ tx'[w][nextJob].retry_of = e
                             /\ wk'[w].job = nextJob
                             /\ jobs' = jobs
                     /\ st = "retrying"
                          => /\ tx' = tx /\ jobs' = jobs /\ nextJob' = nextJob
                             /\ wk'[w].pc = "mark" /\ wk'[w].job = e
      ]_vars

C18_Witness ==
    \E w, o \in Workers :
        /\ wk[w].pc = "mark" /\ wk[w].found = "failure" /\ wk[w].isNew
        /\ tx[w][wk[w].job].retry_of \in DOMAIN jobs
        /\ jobs[tx[w][wk[w].job].retry_of].status = "failure"
        /\ wk[o].pc = "mark" /\ wk[o].found = "retrying" /\ ~wk[o].isNew
        /\ jobs[wk[o].job].status = "retrying" /\ tx[o] = <<>>

\* C19: when a stage keeps failing with a retryable error, each failure marks
\* its job RETRYING and counts one attempt; once the maximum number of retries
\* is reached the job's status becomes FAILURE (it is not left RETRYING) and
\* the task is not retried again.
C19_RetryingThenFailure ==
    \A w \in Workers :
        wk[w].cause = "network"
            => /\ wk[w].job \in DOMAIN jobs
               /\ jobs[wk[w].job].status =
                      IF wk[w].pc = "idle" THEN "failure" ELSE "retrying"

\* C20: a network/connectivity failure against the object store, the
\* embedding/vector service or the database during a pipeline stage is
\* classified retryable: the stage's job is marked RETRYING and the task is
\* re-queued for another attempt while retry budget remains.
C20_ConnectivityFailureRetried ==
    \A w \in Workers :
        ( /\ wk[w].cause \in {"network", "database"}
          /\ (wk[w].pc = "find" \/ CanRetry(wk[w].retries)) )
            => /\ wk[w].pc = "find"
               /\ wk[w].job \in DOMAIN jobs
               /\ jobs[wk[w].job].status = "retrying"

C21_TerminalFailurePersisted ==
    \A w \in Workers :
        wk[w].cause = "error"
            => /\ wk[w].pc = "idle"
               /\ wk[w].job \in DOMAIN jobs
               /\ jobs[wk[w].job].status = "failure"

\* C22: an object-store permission or not-found failure during upload (for
\* example AccessDenied or NoSuchBucket) is terminal: the upload task is not
\* retried.
C22_PermissionFailureTerminal ==
    [][ ( /\ up.pc = "store" /\ up'.pc # "store"
          /\ lastCall'.op = "upload" /\ lastCall'.fault = "AccessDenied" )
            => up'.pc = "failed"
      ]_vars

\* C23: if, during upload, the database update fails after the object-store
\* write succeeded, the retries of the upload stage do not write to the
\* object store again: over all attempts of the task there is at most one
\* object-store write for the uploaded file.
C23_AtMostOneStoreWrite == up.writes <= 1

C23_Witness ==
    /\ up.pc = "failed"
    /\ up.result = "TypeError"
    /\ up.writes = 1
    /\ up.retries > 0

\* C24: uploading a file whose checksum matches an existing ACTIVE document
\* of the same user returns that existing document (the task succeeds),
\* performs no object-store write and creates no new Document row.
C24_DuplicateActiveReturnsDocument ==
    [][ ( /\ up.pc = "queued" /\ up'.pc # "queued"
          /\ GetById(doc) /\ doc.storage_status = "active" )
            => /\ up'.pc = "success"
               /\ versions' = versions
               /\ doc' = doc
      ]_vars

\* C25: within one chain the stages run in strict sequence: the logic of
\* ExtractText runs only after the Upload job reached SUCCESS, and the logic
\* of each later stage only after the job of the stage before it reached
\* SUCCESS; no stage starts after its predecessor failed.
C25_StagesInSequence ==
    \A w \in Workers : \A i \in 1..Len(Stages) :
        ( (wk[w].pc = "logic" /\ wk[w].key = Stages[i]) \/ Stages[i] \in wk[w].ran )
            => IF i = 1
               THEN \E j \in DOMAIN upJobs : upJobs[j] = "success"
               ELSE \E j \in DOMAIN jobs :
                        jobs[j].key = Stages[i - 1] /\ jobs[j].status = "success"

StageRecovered(w) ==
    wk[w].interrupted # ""
        => \/ \E i \in DOMAIN jobs : /\ jobs[i].key = wk[w].interrupted
                                       /\ jobs[i].status = "success"
           \/ nextJob > MaxJobs

\* C27: if a worker dies while executing a stage, the task is redelivered
\* and, when no further failure occurs, the stage's job eventually reaches
\* SUCCESS: the job is not left RUNNING forever and the redelivered attempt
\* is not rejected because of the interrupted one (as long as job ids remain
\* to be allocated).
C27_InterruptedStageCompletes == <>[](\A w \in Workers : StageRecovered(w))

C27_Witness ==
    \E w \in Workers :
        /\ wk[w].interrupted = "embed_chunks"
        /\ wk[w].pc = "idle" /\ wk[w].result = "ok"
        /\ jobs[wk[w].job].status = "success"
        /\ \A i \in DOMAIN jobs : jobs[i].status # "running"

\* C29: a Document row is permanently removed only if, at the time of
\* removal, the document is soft-deleted and its deleted_at is older than
\* the retention window.
C29_RemovedOnlyAfterRetention ==
    [][ \A i \in DOMAIN documents :
          i \notin DOMAIN documents'
              => /\ documents[i].is_deleted
                 /\ documents[i].deleted_at # NULL
                 /\ documents[i].deleted_at <= today - DOCUMENT_RETENTION_PERIOD_DAYS
      ]_vars

\* C30: every document returned by a retention sweep is soft-deleted
\* (is_deleted true, deleted_at set) with deleted_at no later than the sweep
\* time minus the retention window, and a single sweep returns at most the
\* configured cap (100) of documents.
C30_SweepReturnsExpiredCapped ==
    /\ \A i \in expired.ids :
          /\ i \in DOMAIN documents
          /\ documents[i].is_deleted
          /\ documents[i].deleted_at # NULL
          /\ documents[i].deleted_at <= expired.at - DOCUMENT_RETENTION_PERIOD_DAYS
    /\ Cardinality(expired.ids) <= ExpiredBatchLimit

C30_Witness ==
    /\ Cardinality(expired.ids) = ExpiredBatchLimit
    /\ \E i \in DOMAIN documents \ expired.ids :
          /\ documents[i].is_deleted
          /\ documents[i].deleted_at <= expired.at - DOCUMENT_RETENTION_PERIOD_DAYS
    /\ \E i \in DOMAIN documents \ expired.ids :
          /\ documents[i].is_deleted
          /\ documents[i].deleted_at > expired.at - DOCUMENT_RETENTION_PERIOD_DAYS
    /\ \E i \in DOMAIN documents : ~documents[i].is_deleted

\* C31: a retention sweep enqueues exactly one independent permanent-delete
\* task per expired document it found, and its returned scheduled_count
\* equals the number of expired_docs it returns (0 and an empty list when
\* none are found).
C31_SweepFansOut ==
    [][ expired'.at # expired.at \/ expired'.ids # expired.ids
          => /\ expired'.result = "success"
             /\ expired'.scheduled_count = Cardinality(expired'.ids)
             /\ \A i \in DOMAIN pd' :
                    IF i \in expired'.ids
                    THEN pd'[i] = QueuedPurgeTask("sweep")
                    ELSE pd'[i] = pd[i]
      ]_vars

\* no two versions of the key share a last_modified stamp
DistinctStamps(vs) == \A a, b \in Range(vs) : a.lm = b.lm => a = b

\* C32: a document whose soft-delete task completed successfully, on its
\* first attempt or on a retry after earlier attempts added a delete marker
\* but failed the database update, can be restored: the restore called with
\* the version_id stored on the document, when nothing fails, removes the
\* marker and leaves a content version as the key's latest version (and the
\* task goes on to clear is_deleted).
C32_SoftDeletedRestorable ==
    [][ ( /\ rs.pc = "store" /\ rs'.pc # "store"
          /\ lastCall'.op = "restore" /\ lastCall'.fault = "none"
          /\ sd.pc = "success" /\ rt.set
          /\ sd.retries = sd.dbFails
          /\ doc = rt.docAfter /\ versions = rt.post
          /\ DistinctStamps(versions)
          /\ rs.version_id = doc.version_id )
            => /\ rs'.pc = "db"
               /\ ~LatestVersion(versions').dm
      ]_vars

C34_SweptDocumentsRemoved ==
    \A i \in 1..MaxDocs :
        (i \in expired.ids) ~> (i \notin DOMAIN documents /\ objects[i] = {})

\* C35: permanent_delete_document_task removes the Document row only after
\* every version of the document's storage key has been removed from the
\* object store; if removing the versions fails, the row is kept and the task
\* is retried.
C35_RowRemovedAfterVersions ==
    [][ \A i \in DOMAIN documents :
          /\ i \notin DOMAIN documents' => objects'[i] = {}
          /\ (pd[i].pc = "queued" /\ pd'[i] # pd[i] /\ objects'[i] # {})
                => /\ i \in DOMAIN documents'
                   /\ pd'[i] = TaskRetry(pd[i], "ExternalServiceError")
      ]_vars

\* C37: delivering soft_delete_document_task again for a document that is
\* already soft-deleted (redelivery or duplicate request) returns success
\* with "Document already soft deleted", adds no further delete marker and
\* leaves the Document row unchanged.
C37_RepeatedSoftDeleteSucceeds ==
    [][ ( /\ sd.pc = "queued" /\ sd'.pc # "queued"
          /\ doc.is_deleted /\ doc.storage_status = "deleted" )
            => /\ sd'.pc = "success"
               /\ sd'.result = "already soft deleted"
               /\ versions' = versions
               /\ doc' = doc
      ]_vars

\* the rows of the DocumentJob table
JobRows == {jobs[i] : i \in DOMAIN jobs}

\* C38: every job row of the table satisfies: status RUNNING implies
\* started_at is set; status SUCCESS, FAILURE or TIMEOUT implies finished_at
\* is set; and any job with finished_at set also has started_at set, with
\* started_at not later than finished_at.
C38_StampsFollowStatus ==
    \A row \in JobRows :
        /\ row.status = "running" => row.started_at # NULL
        /\ row.status \in {"success", "failure", "timeout"} => row.finished_at # NULL
        /\ row.finished_at # NULL
              => row.started_at # NULL /\ row.started_at <= row.finished_at

\* the job that waited for a retry was run again and failed for good: it is
\* stored as FAILURE, started before it finished, beside a SUCCESS job
C38_Witness ==
    /\ \E i \in DOMAIN jobs :
          /\ jobs[i].status = "failure"
          /\ jobs[i].started_at # NULL
          /\ jobs[i].finished_at > jobs[i].started_at
          /\ \E w \in Workers : wk[w].job = i /\ wk[w].found = "retrying"
    /\ \E i \in DOMAIN jobs : jobs[i].status = "success" /\ jobs[i].retry_of # NULL

\* C39: when the upload task reaches a final outcome (success, terminal
\* failure, or failure after the retry budget is exhausted) the temporary
\* upload file has been deleted; while a retry is still pending the file is
\* kept so the retry can read it.
C39_TempFileCleanedAtEnd ==
    /\ up.pc \in {"success", "failed"} => ~up.temp_file
    /\ InFlight(up) => up.temp_file

=============================================================================
